---- MODULE Spec2Model ----
(***************************************************************************)
(* Multi-objective scheduling of machines over a horizon of time slots:    *)
(* the feasible region of ModelBuilder, the calibration points of          *)
(* ObjectiveManager, the four strategies of OptimizationApproaches and the *)
(* extraction of ResultExtractor.                                          *)
(*                                                                         *)
(* Numbers.  The program computes in floating point; the model computes    *)
(* exactly, in integers with a stated unit:                                *)
(*   prices c, o, budgets A and every cost EC     tenths of a currency unit*)
(*   rated power R, loads e and the peak PL       whole kW                 *)
(*   alpha                                        whole hours              *)
(*   nadir points and normalisation denominators  hundredths               *)
(*   weights w_EC, w_PL                           tenths                   *)
(* The Solver (PULP_CBC_CMD) is an opaque collaborator: asked to minimise  *)
(* over a non-empty region it reports "Optimal" and returns any one of the *)
(* minimising assignments; over an empty region it reports "Infeasible".   *)
(***************************************************************************)
EXTENDS Integers, Sequences, FiniteSets, TLC

(***************************************************************************)
(* Bounds of the model.                                                    *)
(***************************************************************************)
\* number of machines I of the parameter sets explored
NumMachines == 2
\* number of time slots T of the parameter sets explored
NumSlots == 3
\* how far above the highest load the Solver may leave the variable PL
\* when nothing in the model pushes it down
MaxPLSlack == 1

(***************************************************************************)
(* Arithmetic helpers.                                                     *)
(***************************************************************************)
Max2(a, b) == IF a >= b THEN a ELSE b

MinOf(S) == CHOOSE m \in S : \A n \in S : m <= n

MaxOf(S) == CHOOSE m \in S : \A n \in S : m >= n

\* sum of f[1] .. f[n]; the lpSum / accumulation loops of the program
RECURSIVE SumTo(_, _)
SumTo(f, n) == IF n = 0 THEN 0 ELSE f[n] + SumTo(f, n - 1)

Bits == {0, 1}

(***************************************************************************)
(* Parameters (DataManager.parse_parameters).  p is a record               *)
(*   I, T, S  counts;  R, N, E, L  functions on sets of <<i, s>> pairs;     *)
(*   c, o     functions on 1..T;  alpha;  A  function on 1..S;             *)
(*   dep      function from <<i, s>> pairs to the predecessor machine id.  *)
(***************************************************************************)
\* R.get((i, s), 0)
RGet(p, i, s) == IF <<i, s>> \in DOMAIN p.R THEN p.R[<<i, s>>] ELSE 0

\* N.get((i, s), 0)
NGet(p, i, s) == IF <<i, s>> \in DOMAIN p.N THEN p.N[<<i, s>>] ELSE 0

\* the key list of the x, y and u variable dictionaries
VarKeys(p) == (1 .. p.I) \X (1 .. p.T) \X (1 .. p.S)

\* the (machine, system) pairs the variable dictionaries range over
VarPairs(p) == (1 .. p.I) \X (1 .. p.S)

(***************************************************************************)
(* ModelBuilder: the variables and the seven constraint families.  An      *)
(* assignment a gives every variable a value:                              *)
(*   a.x, a.y, a.u   <<i, s>> -> (1..T -> {0, 1}),  x[(i, t, s)] = a.x[<<i, s>>][t] *)
(*   a.e             1..T -> load,   a.PL  the peak-load variable          *)
(***************************************************************************)
\* sum of f[lo] .. f[hi], empty when lo > hi: lpSum over range(lo, hi + 1)
RECURSIVE SumRange(_, _, _)
SumRange(f, lo, hi) == IF lo > hi THEN 0 ELSE f[hi] + SumRange(f, lo, hi - 1)

\* right-hand side of Electricity_Consumption_t:
\*   lpSum(R.get((i, s), 0) * x[(i, t, s)] for s for i)
\* a variant of the consumption row that adds up the machines of system 1
\* only
LoadOfFirstSystem(p, x, t) ==
    SumTo([i \in 1 .. p.I |-> RGet(p, i, 1) * x[<<i, 1>>][t]], p.I)

LoadAt(p, x, t) ==
    SumTo([s \in 1 .. p.S |->
             SumTo([i \in 1 .. p.I |-> RGet(p, i, s) * x[<<i, s>>][t]], p.I)],
          p.S)

\* Peak_Load_t, for every t:  PL >= e[t]
\* a variant of the peak rows that bounds PL by the load of slot 1 only
PeakOfFirstSlot(p, e, PL) == PL >= e[1]

PeakLoadConstraints(p, e, PL) == \A t \in 1 .. p.T : PL >= e[t]

\* left-hand side of Budget_Constraint_s:
\*   lpSum(R.get((i, s), 0) * (c[t] * x - o[t] * y) * alpha for t for i)
NetSpend(p, x, y, s) ==
    SumTo([t \in 1 .. p.T |->
             SumTo([i \in 1 .. p.I |->
                      RGet(p, i, s)
                        * (p.c[t] * x[<<i, s>>][t] - p.o[t] * y[<<i, s>>][t])
                        * p.alpha], p.I)],
          p.T)

\* a faulty variant of the budget rows: one row for the plant, the budgets
\* of the systems pooled
PooledBudget(p, x, y) ==
    SumTo([s \in 1 .. p.S |-> NetSpend(p, x, y, s)], p.S) <= SumTo(p.A, p.S)

\* Budget_Constraint_s, one per system
BudgetConstraints(p, x, y) == \A s \in 1 .. p.S : NetSpend(p, x, y, s) <= p.A[s]

\* a faulty variant of the duration row: the slots counted over the whole
\* horizon instead of the window
DurationAnywhere(p, xr, i, s) ==
    (<<i, s>> \in DOMAIN p.E /\ <<i, s>> \in DOMAIN p.L)
       => SumRange(xr, 1, p.T) >= NGet(p, i, s)

\* Operation_Duration_i_s, only for a pair with both E and L:
\*   lpSum(x[(i, t, s)] for t in range(E, L + 1)) >= N.get((i, s), 0)
OperationDuration(p, xr, i, s) ==
    (<<i, s>> \in DOMAIN p.E /\ <<i, s>> \in DOMAIN p.L)
       => SumRange(xr, p.E[<<i, s>>], p.L[<<i, s>>]) >= NGet(p, i, s)

\* Constraint (7), Uninterruptible_1:  x[t] <= 1 - u[t]
Uninterruptible1(xr, ur, t) == xr[t] <= 1 - ur[t]

\* a faulty variant of constraint (8): the row compares the slot with itself
StopUnnoticed(xr, ur, t) == t >= 2 => xr[t] - xr[t] <= ur[t]

\* Constraint (8), Uninterruptible_2, for t >= 2:  x[t-1] - x[t] <= u[t]
Uninterruptible2(xr, ur, t) == t >= 2 => xr[t - 1] - xr[t] <= ur[t]

\* Constraint (9), Uninterruptible_3, for t >= 2:  u[t-1] <= u[t]
Uninterruptible3(ur, t) == t >= 2 => ur[t - 1] <= ur[t]

\* Incentive_Constraint:  y[t] <= x[t]
IncentiveConstraint(xr, yr, t) == yr[t] <= xr[t]

\* Precedence_Constraint, for every registered (i, s) -> i_star and every t:
\*   x[(i, t, s)] <= u[(i_star, t, s)]
MachineDependency(p, x, u) ==
    \A k \in DOMAIN p.dep : \A t \in 1 .. p.T :
        x[k][t] <= u[<<p.dep[k], k[2]>>][t]

\* whether some dependency of system s names machine i as its predecessor
IsPredecessor(p, i, s) == \E k \in DOMAIN p.dep : k[2] = s /\ p.dep[k] = i

(***************************************************************************)
(* Enumeration of the region.  The constraints that mention one pair only  *)
(* ((7), (8), (9), incentive, duration) are applied pair by pair, the      *)
(* coupling ones (precedence, budget, peak) to the combinations.  A pair   *)
(* outside the rated-power mapping has no E, L or N and coefficient 0 in   *)
(* every load, cost and budget row: its x and y occur in its own rows      *)
(* only, which 0 satisfies whatever u is, and are listed at 0; so is its   *)
(* u, unless a precedence row reads it.                                    *)
(***************************************************************************)
BitRows(p) == [1 .. p.T -> Bits]

ZeroRow(p) == [t \in 1 .. p.T |-> 0]

RowCandidates(p, i, s) ==
    IF <<i, s>> \in DOMAIN p.R
      THEN [x : BitRows(p), y : BitRows(p), u : BitRows(p)]
      ELSE [x : {ZeroRow(p)}, y : {ZeroRow(p)},
            u : IF IsPredecessor(p, i, s) THEN BitRows(p) ELSE {ZeroRow(p)}]

\* the rows of one pair that satisfy the constraints on that pair alone
PairRows(p, i, s) ==
    {r \in RowCandidates(p, i, s) :
        /\ OperationDuration(p, r.x, i, s)
        /\ \A t \in 1 .. p.T :
              /\ Uninterruptible1(r.x, r.u, t)
              /\ Uninterruptible2(r.x, r.u, t)
              /\ Uninterruptible3(r.u, t)
              /\ IncentiveConstraint(r.x, r.y, t)}

\* the n-th pair, machines outermost
PairAt(p, n) == <<((n - 1) \div p.S) + 1, ((n - 1) % p.S) + 1>>

RECURSIVE RowChoices(_, _)
RowChoices(p, n) ==
    IF n = 0 THEN {<<>>}
    ELSE LET k == PairAt(p, n)
             rows == PairRows(p, k[1], k[2])
         IN  {f @@ (k :> r) : f \in RowChoices(p, n - 1), r \in rows}

\* ObjectiveManager.calculate_EC_expression, placed here because the points
\* of a model carry its value.
\* calculate_EC_expression, evaluated at x, y (tenths):
\*   lpSum(R.get((i, s), 0) * (c[t] * x - o[t] * y) * alpha for s for t for i)
CalculateECExpression(p, x, y) ==
    SumTo([s \in 1 .. p.S |->
             SumTo([t \in 1 .. p.T |->
                      SumTo([i \in 1 .. p.I |->
                               RGet(p, i, s)
                                 * (p.c[t] * x[<<i, s>>][t]
                                      - p.o[t] * y[<<i, s>>][t])
                                 * p.alpha], p.I)], p.T)],
          p.S)

\* the e[t] the Electricity_Consumption rows fix for slots 1 .. n
RECURSIVE ElectricityConsumption(_, _, _)
ElectricityConsumption(p, x, n) ==
    IF n = 0 THEN <<>>
    ELSE Append(ElectricityConsumption(p, x, n - 1), LoadAt(p, x, n))

\* build_base_model: the model handed to the Solver, as the set of its
\* feasible points.  A point is an assignment a that satisfies every
\* constraint, with the value EC of calculate_EC_expression(x, y) at it.
\* e[t] is fixed by its equality row; PL (lowBound 0) is listed from 0 up to
\* MaxPLSlack above the highest load and kept where the Peak_Load rows hold.
BuildBaseModel(p) ==
    LET xOf(f) == [k \in VarPairs(p) |-> f[k].x]
        yOf(f) == [k \in VarPairs(p) |-> f[k].y]
        uOf(f) == [k \in VarPairs(p) |-> f[k].u]
        ok == {f \in RowChoices(p, p.I * p.S) :
                 /\ MachineDependency(p, xOf(f), uOf(f))
                 /\ BudgetConstraints(p, xOf(f), yOf(f))}
        Points(f) ==
            LET x == xOf(f)
                y == yOf(f)
                e == ElectricityConsumption(p, x, p.T)
                top == MaxOf({e[t] : t \in 1 .. p.T})
                EC == CalculateECExpression(p, x, y)
            IN  {[a |-> [x |-> x, y |-> y, u |-> uOf(f), e |-> e, PL |-> PL],
                  EC |-> EC] :
                    PL \in {v \in 0 .. top + MaxPLSlack :
                              PeakLoadConstraints(p, e, v)}}
    IN  UNION {Points(f) : f \in ok}

(***************************************************************************)
(* The Solver: model.solve(PULP_CBC_CMD) and model.status.                 *)
(***************************************************************************)
\* model.status after solve
SolveStatus(region) == IF region = {} THEN "Infeasible" ELSE "Optimal"

(***************************************************************************)
(* ObjectiveManager.                                                       *)
(***************************************************************************)
\* the points the Solver may return when the EC expression is the objective
\* a variant of the EC solve that was given PL as its objective
MinimizePeakInstead(model) ==
    LET best == MinOf({pt.a.PL : pt \in model})
    IN  {pt \in model : pt.a.PL = best}

MinimizeEC(model) ==
    LET best == MinOf({pt.EC : pt \in model})
    IN  {pt \in model : pt.EC = best}

\* the points the Solver may return when the variable PL is the objective
MinimizePL(model) ==
    LET best == MinOf({pt.a.PL : pt \in model})
    IN  {pt \in model : pt.a.PL = best}

\* a value the program holds as a number or as None
None == [none |-> TRUE, val |-> 0]

Some(v) == [none |-> FALSE, val |-> v]

\* Python's  v or d : d when v is None or zero
OrElse(v, d) == IF v.none \/ v.val = 0 THEN d ELSE v.val

\* get_EC_ideal on the built model: pl.value(model.objective) of the EC-only
\* solve (tenths), or None
GetECIdeal(model) ==
    IF SolveStatus(model) = "Optimal"
      THEN Some(MinOf({pt.EC : pt \in model}))
      ELSE None

\* get_PL_ideal on the built model: pl.value(model.objective) of the PL-only
\* solve (kW), or None
\* a variant of get_PL_ideal that maximises PL over the PL values listed
GetPLWorst(model) ==
    IF SolveStatus(model) = "Optimal"
      THEN Some(MaxOf({pt.a.PL : pt \in model}))
      ELSE None

GetPLIdeal(model) ==
    IF SolveStatus(model) = "Optimal"
      THEN Some(MinOf({pt.a.PL : pt \in model}))
      ELSE None

\* the last step of get_nadir_points: a nadir equal to its ideal is moved to
\* ideal * 1.1 + 0.1.  Ideals in tenths (EC) and kW (PL), nadirs in hundredths.
\* a variant that moves only EC_nadir off its ideal
PerturbECNadirOnly(EC_ideal, PL_ideal, EC_nadir, PL_nadir) ==
    [EC_ideal |-> EC_ideal, PL_ideal |-> PL_ideal,
     EC_nadir |-> IF EC_nadir = 10 * EC_ideal
                    THEN 11 * EC_ideal + 10 ELSE EC_nadir,
     PL_nadir |-> PL_nadir]

PerturbNadir(EC_ideal, PL_ideal, EC_nadir, PL_nadir) ==
    [EC_ideal |-> EC_ideal, PL_ideal |-> PL_ideal,
     EC_nadir |-> IF EC_nadir = 10 * EC_ideal
                    THEN 11 * EC_ideal + 10 ELSE EC_nadir,
     PL_nadir |-> IF PL_nadir = 100 * PL_ideal
                    THEN 110 * PL_ideal + 10 ELSE PL_nadir]

\* get_nadir_points: the tuples (EC_ideal, PL_ideal, EC_nadir, PL_nadir) it
\* can return, one per optimum the EC_Only and the PL_Only solve may pick.
GetNadirPoints(model) ==
    LET EC_ideal == OrElse(GetECIdeal(model), 0)
        PL_ideal == OrElse(GetPLIdeal(model), 0)
    IN  IF SolveStatus(model) = "Optimal"
          THEN {PerturbNadir(EC_ideal, PL_ideal,
                             Max2(10 * EC_from_PL_opt, 15 * EC_from_EC_opt),
                             Max2(100 * PL_from_EC_opt, 150 * PL_from_PL_opt)) :
                  <<EC_from_EC_opt, PL_from_EC_opt>> \in
                      {<<pt.EC, pt.a.PL>> : pt \in MinimizeEC(model)},
                  <<EC_from_PL_opt, PL_from_PL_opt>> \in
                      {<<pt.EC, pt.a.PL>> : pt \in MinimizePL(model)}}
          ELSE {PerturbNadir(EC_ideal, PL_ideal,
                             IF EC_ideal # 0 THEN 20 * EC_ideal ELSE 10000,
                             IF PL_ideal # 0 THEN 200 * PL_ideal ELSE 2000)}

\* get_normalization_factors divides 1 by these (hundredths):
\*   EC_norm = 1 / (EC_nadir - EC_ideal),  PL_norm = 1 / (PL_nadir - PL_ideal)
ECNormDenominator(np) == np.EC_nadir - 10 * np.EC_ideal

PLNormDenominator(np) == np.PL_nadir - 100 * np.PL_ideal

\* whether get_normalization_factors raises ZeroDivisionError
NormalizationRaises(np) ==
    ECNormDenominator(np) = 0 \/ PLNormDenominator(np) = 0


(***************************************************************************)
(* ResultExtractor.                                                        *)
(***************************************************************************)
\* a variant of _calculate_EC_value that leaves the incentive term out
CalculateECWithoutIncentive(p, a) ==
    SumTo([s \in 1 .. p.S |->
             SumTo([i \in 1 .. p.I |->
                      SumTo([t \in 1 .. p.T |->
                               IF <<i, s>> \in DOMAIN p.R
                                 THEN RGet(p, i, s) * p.c[t] * a.x[<<i, s>>][t]
                                        * p.alpha
                                 ELSE 0], p.T)], p.I)],
          p.S)

\* _calculate_EC_value: the cost accumulated over s, i, t with (i, s) in R
CalculateECValue(p, a) ==
    SumTo([s \in 1 .. p.S |->
             SumTo([i \in 1 .. p.I |->
                      SumTo([t \in 1 .. p.T |->
                               IF <<i, s>> \in DOMAIN p.R
                                 THEN RGet(p, i, s)
                                        * (p.c[t] * a.x[<<i, s>>][t]
                                             - p.o[t] * a.y[<<i, s>>][t])
                                        * p.alpha
                                 ELSE 0], p.T)], p.I)],
          p.S)

\* a variant of _extract_schedule without the test "(i, s) in R": a row for
\* every (s, i, t)
ExtractEveryPair(p, a) ==
    [n \in 1 .. p.S * p.I * p.T |->
       LET s == ((n - 1) \div (p.I * p.T)) + 1
           i == (((n - 1) \div p.T) % p.I) + 1
           t == ((n - 1) % p.T) + 1
           on == 2 * a.x[<<i, s>>][t] > 1
       IN  [SystemID |-> s, MachineID |-> i, TimeSlot |-> t,
            Status |-> IF on THEN 1 ELSE 0,
            Power |-> IF on THEN RGet(p, i, s) ELSE 0]]

\* _extract_schedule: the list of rows appended in the order of its loops
\* (s, then i, then t), one for each (s, i, t) with (i, s) in R; Status 1
\* and Power R when x > 0.5, Status 0 and Power 0 otherwise
ExtractSchedule(p, a) ==
    LET \* the n-th (s, i, t) of "for s in S: for i in I: for t in 1..T"
        Triple(n) == [s |-> ((n - 1) \div (p.I * p.T)) + 1,
                      i |-> (((n - 1) \div p.T) % p.I) + 1,
                      t |-> ((n - 1) % p.T) + 1]
        InR(k) == <<k.i, k.s>> \in DOMAIN p.R
        rows == SelectSeq([n \in 1 .. p.S * p.I * p.T |-> Triple(n)], InR)
    IN  [n \in 1 .. Len(rows) |->
           LET k == rows[n]
               on == 2 * a.x[<<k.i, k.s>>][k.t] > 1
           IN  [SystemID |-> k.s, MachineID |-> k.i, TimeSlot |-> k.t,
                Status |-> IF on THEN 1 ELSE 0,
                Power |-> IF on THEN RGet(p, k.i, k.s) ELSE 0]]

\* _calculate_load_profile: t -> pl.value(e[t])
CalculateLoadProfile(p, a) == [t \in 1 .. p.T |-> a.e[t]]

\* what a strategy returns: a result, None, or an exception that escapes it
NoResult == [kind |-> "None"]

Raised == [kind |-> "ZeroDivisionError"]

\* a variant of extract_results that reports the load of slot 1 as the peak
ExtractFirstLoadAsPeak(p, a) ==
    [kind |-> "Result",
     EC |-> CalculateECValue(p, a),
     PL |-> a.e[1],
     Schedule |-> ExtractSchedule(p, a),
     LoadProfile |-> CalculateLoadProfile(p, a)]

\* extract_results of a model whose status is Optimal
ExtractResults(p, a) ==
    [kind |-> "Result",
     EC |-> CalculateECValue(p, a),
     PL |-> a.PL,
     Schedule |-> ExtractSchedule(p, a),
     LoadProfile |-> CalculateLoadProfile(p, a)]

(***************************************************************************)
(* State.                                                                  *)
(***************************************************************************)
VARIABLES
    params,     \* the DataManager's parameters, read by every component
    pc,         \* "idle": the caller is about to call a strategy;
                \* "returned": a strategy has returned
    approach,   \* the method called last and its weights (tenths)
    locals,     \* what the call got from its first solves: optimal_EC or
                \* optimal_PL of step 1, the values get_EC_ideal and
                \* get_PL_ideal returned, the tuple of get_nadir_points, or
                \* EC_ideal and PL_ideal of solve_compromise_programming
                \* (both in tenths, after "or 0.1")
    solved,     \* status and variable values of the model that strategy
                \* handed to extract_results, if it got that far
    result,     \* what the strategy returned
    solves,     \* how many times the call has run model.solve
    reference,  \* what get_EC_ideal() and get_PL_ideal() return on the
                \* parameters of the call, kept beside its result; beside
                \* the result of solve_preemptive_PL_first also the least EC
                \* its step 2 can reach, beside the result of
                \* solve_compromise_programming the least maximum deviation
                \* from those ideals
    stage,          \* where a run of main stands: "off" outside a run of
                    \* main, else the call or step main is about to make,
                    \* "done" or "crashed"
    all_results,    \* main's all_results, filled as the strategies return
    total_solves,   \* model.solve calls of the run of main so far
    comparison_df,  \* what compare_approaches returned
    sheet,          \* the worksheets of the Google Sheet the run writes and
                    \* reads back
    schedule_df,    \* the ScheduleFormatter's schedule_df after load_data
    periods_df      \* what format_schedule returned

\* the state of a run of main
mainvars ==
    <<stage, all_results, total_solves, comparison_df, sheet, schedule_df,
      periods_df>>

vars ==
    <<params, pc, approach, locals, solved, result, solves, reference,
      mainvars>>

NoApproach == [name |-> "none", w_EC |-> 0, w_PL |-> 0]

NoLocals == [none |-> TRUE]

NotSolved == [status |-> "Not Solved"]

Pending == [kind |-> "Pending"]

\* no table: a worksheet the workbook does not have, a DataFrame not made
NoTable == [none |-> TRUE, val |-> <<>>]

\* the worksheets before a run has written any
NoSheets ==
    [OptimizationResults |-> NoTable, OptimizedSchedule |-> NoTable,
     MachineOperationSchedule |-> NoTable, DailyScheduleView |-> NoTable]

\* the instance is used outside a run of main: nothing of main's state
NotInMain ==
    /\ stage = "off"
    /\ all_results = <<>>
    /\ total_solves = 0
    /\ comparison_df = NoTable
    /\ sheet = NoSheets
    /\ schedule_df = NoTable
    /\ periods_df = NoTable


(***************************************************************************)
(* The parameter sets explored.  Prices in tenths per kWh, budgets in      *)
(* tenths, power in kW; machine ids 1..I and system ids 1..S as            *)
(* parse_parameters and the loops of ModelBuilder expect.                  *)
(***************************************************************************)
\* a machine row of the Machines sheet: RatedPower, OperationSlots and
\* <<EarlyTimeSlot, LateTimeSlot>>
MachineKinds ==
    {[R |-> 1, N |-> 1, win |-> <<2, 2>>],
     [R |-> 2, N |-> 1, win |-> <<2, 2>>],
     [R |-> 2, N |-> 1, win |-> <<1, 1>>],
     [R |-> 1, N |-> 0, win |-> <<1, NumSlots>>],
     [R |-> 2, N |-> 2, win |-> <<1, NumSlots>>]}

\* the rows machines 2.. are drawn from
FollowerKinds ==
    {[R |-> 1, N |-> 0, win |-> <<1, NumSlots>>],
     [R |-> 2, N |-> 2, win |-> <<1, NumSlots>>]}

\* the system of each machine: all in system 1, or machine 1 in system 1 and
\* the others in system 2
OneSystem == [i \in 1 .. NumMachines |-> 1]

TwoSystems == [i \in 1 .. NumMachines |-> IF i = 1 THEN 1 ELSE 2]

\* ToU prices and incentives: even slots cost 2.0, odd slots 1.0; either no
\* incentive, or 3.0 in slot 2 (more than its price)
Tariffs ==
    {[c |-> [t \in 1 .. NumSlots |-> IF t % 2 = 0 THEN 20 ELSE 10],
      o |-> [t \in 1 .. NumSlots |-> 0]],
     [c |-> [t \in 1 .. NumSlots |-> IF t % 2 = 0 THEN 20 ELSE 10],
      o |-> [t \in 1 .. NumSlots |-> IF t = 2 THEN 30 ELSE 0]]}

\* layout, budget A_1 of system 1 (tenths; the other systems get 100.0) and
\* whether the PredecessorMachine column makes machine 2 run after machine 1:
\* an ample budget with and without the dependency, a dependency on a
\* machine of another system, a budget only incentives can meet, and tight
\* budgets A_1 next to an ample A_2
Configurations ==
    {[layout |-> OneSystem, budget |-> 1000, dependent |-> FALSE],
     [layout |-> OneSystem, budget |-> 1000, dependent |-> TRUE],
     [layout |-> OneSystem, budget |-> -10, dependent |-> TRUE],
     [layout |-> TwoSystems, budget |-> 1000, dependent |-> TRUE],
     [layout |-> TwoSystems, budget |-> 20, dependent |-> FALSE],
     [layout |-> TwoSystems, budget |-> -10, dependent |-> FALSE]}

MakeParams(layout, kinds, tariff, budget, dependent) ==
    LET pairs == {<<i, layout[i]>> : i \in 1 .. NumMachines}
        S == MaxOf({layout[i] : i \in 1 .. NumMachines})
    IN  [I |-> NumMachines, T |-> NumSlots, S |-> S,
         R |-> [k \in pairs |-> kinds[k[1]].R],
         N |-> [k \in pairs |-> kinds[k[1]].N],
         E |-> [k \in pairs |-> kinds[k[1]].win[1]],
         L |-> [k \in pairs |-> kinds[k[1]].win[2]],
         c |-> tariff.c, o |-> tariff.o, alpha |-> 1,
         A |-> [s \in 1 .. S |-> IF s = 1 THEN budget ELSE 1000],
         dep |-> IF dependent /\ NumMachines >= 2
                   THEN [k \in {<<2, layout[2]>>} |-> 1]
                   ELSE [k \in {} |-> 1]]

\* the weights (tenths) solve_weighted_sum is called with; main passes 0.7, 0.3
WeightedSumWeights == {<<10, 0>>, <<0, 10>>, <<7, 3>>}

\* the weights (tenths) solve_compromise_programming is called with; main
\* passes 0.5, 0.5
CompromiseWeights == {<<5, 5>>, <<7, 3>>}

Init ==
    /\ \E cfg \in Configurations, first \in MachineKinds,
          others \in [2 .. NumMachines -> FollowerKinds], tariff \in Tariffs :
          params = MakeParams(cfg.layout,
                              [i \in 1 .. NumMachines |->
                                 IF i = 1 THEN first ELSE others[i]],
                              tariff, cfg.budget, cfg.dependent)
    /\ pc = "idle"
    /\ approach = NoApproach
    /\ locals = NoLocals
    /\ solved = NotSolved
    /\ result = Pending
    /\ solves = 0
    /\ reference = NoLocals
    /\ NotInMain

(***************************************************************************)
(* OptimizationApproaches.  Every solve of a strategy builds the base      *)
(* model anew from the same parameters; the model it solves is that region *)
(* narrowed by the constraints the strategy adds.  build_base_model is     *)
(* evaluated once per call below ("\E model \in {...}") and stands for     *)
(* each of the strategy's builds.                                          *)
(***************************************************************************)
\* what get_EC_ideal and get_PL_ideal return on the built model
Ideals(model) == [EC_ideal |-> GetECIdeal(model), PL_ideal |-> GetPLIdeal(model)]

\* the least EC among the points of the base region whose PL is at most 1.001
\* times the least PL of the region: what step 2 of solve_preemptive_PL_first
\* is to find
LeastECAtPLIdeal(model) ==
    IF SolveStatus(model) # "Optimal"
      THEN None
      ELSE LET least_PL == MinOf({pt.a.PL : pt \in model})
           IN  Some(MinOf({pt.EC : pt \in {q \in model :
                                             1000 * q.a.PL <= 1001 * least_PL}}))

\* the ideals with that value beside them
WithLeastEC(got, least) ==
    [EC_ideal |-> got.EC_ideal, PL_ideal |-> got.PL_ideal, least_EC |-> least]

\* the strategy returns res, having handed a model with the values st to
\* extract_results (or none)
Return(name, w, loc, st, res) ==
    /\ pc' = "returned"
    /\ approach' = [name |-> name, w_EC |-> w[1], w_PL |-> w[2]]
    /\ locals' = loc
    /\ solved' = st
    /\ result' = res
    /\ UNCHANGED <<params, mainvars>>

\* a variant of extract_results without its status check: reading the values
\* of a model that is not Optimal raises
ExtractUnguarded(name, w, loc, optima) ==
    IF optima = {}
      THEN Return(name, w, loc, [status |-> "Not Optimal"], Raised)
      ELSE \E pt \in optima :
              Return(name, w, loc, [status |-> "Optimal", a |-> pt.a],
                     ExtractResults(params, pt.a))

\* model.solve and extract_results on the last model of a strategy: optima
\* are the points the Solver may return, empty when the model is infeasible
SolveAndExtract(name, w, loc, optima) ==
    IF optima = {}
      THEN Return(name, w, loc, [status |-> "Not Optimal"], NoResult)
      ELSE \E pt \in optima :
              Return(name, w, loc, [status |-> "Optimal", a |-> pt.a],
                     ExtractResults(params, pt.a))

\* solve_preemptive_EC_first
SolvePreemptiveECFirst ==
    /\ pc = "idle"
    /\ \E model \in {BuildBaseModel(params)} :
          /\ reference' = Ideals(model)
          /\ IF SolveStatus(model) # "Optimal"
               THEN \* step 1 was the only solve
                    /\ solves' = 1
                    /\ Return("PR_EC_First", <<0, 0>>, [optimal_EC |-> None],
                              NotSolved, NoResult)
               ELSE \E optimal_EC \in {MinOf({pt.EC : pt \in model})} :
                       \* Maintain_Optimal_EC:  EC <= optimal_EC * 1.001
                       \E model2 \in {{pt \in model :
                                         1000 * pt.EC <= 1001 * optimal_EC}} :
                          /\ solves' = 2
                          /\ SolveAndExtract("PR_EC_First", <<0, 0>>,
                                             [optimal_EC |-> Some(optimal_EC)],
                                             IF model2 = {} THEN {}
                                             ELSE MinimizePL(model2))

\* a variant of solve_preemptive_PL_first that builds on the model
\* solve_preemptive_EC_first left behind in the same run, Maintain_Optimal_EC
\* still in it
SolvePLFirstOnSharedModel ==
    /\ pc = "idle"
    /\ \E base \in {BuildBaseModel(params)} :
          \E model \in {IF stage # "off"
                           /\ all_results["PR_EC_first"].kind = "Result"
                         THEN {pt \in base :
                                 1000 * pt.EC
                                   <= 1001 * all_results["PR_EC_first"].EC}
                         ELSE base} :
             /\ reference' = WithLeastEC(Ideals(base), LeastECAtPLIdeal(base))
             /\ IF SolveStatus(model) # "Optimal"
                  THEN /\ solves' = 1
                       /\ Return("PR_PL_First", <<0, 0>>, [optimal_PL |-> None],
                                 NotSolved, NoResult)
                  ELSE \E optimal_PL \in {MinOf({pt.a.PL : pt \in model})} :
                          \E model2 \in {{pt \in model :
                                            1000 * pt.a.PL <= 1001 * optimal_PL}} :
                             /\ solves' = 2
                             /\ SolveAndExtract("PR_PL_First", <<0, 0>>,
                                                [optimal_PL |-> Some(optimal_PL)],
                                                IF model2 = {} THEN {}
                                                ELSE MinimizeEC(model2))

\* solve_preemptive_PL_first
SolvePreemptivePLFirst ==
    /\ pc = "idle"
    /\ \E model \in {BuildBaseModel(params)} :
          /\ reference' = WithLeastEC(Ideals(model), LeastECAtPLIdeal(model))
          /\ IF SolveStatus(model) # "Optimal"
               THEN \* step 1 was the only solve
                    /\ solves' = 1
                    /\ Return("PR_PL_First", <<0, 0>>, [optimal_PL |-> None],
                              NotSolved, NoResult)
               ELSE \E optimal_PL \in {MinOf({pt.a.PL : pt \in model})} :
                       \* Maintain_Optimal_PL:  PL <= optimal_PL * 1.001
                       \E model2 \in {{pt \in model :
                                         1000 * pt.a.PL <= 1001 * optimal_PL}} :
                          /\ solves' = 2
                          /\ SolveAndExtract("PR_PL_First", <<0, 0>>,
                                             [optimal_PL |-> Some(optimal_PL)],
                                             IF model2 = {} THEN {}
                                             ELSE MinimizeEC(model2))


\* the objective of solve_weighted_sum at a point, up to a positive factor:
\*   w_EC * (EC - EC_ideal) * EC_norm + w_PL * (PL - PL_ideal) * PL_norm
\* times |EC_nadir - EC_ideal| * |PL_nadir - PL_ideal|
WeightedObjective(pt, np, w) ==
    LET dEC == ECNormDenominator(np)
        dPL == PLNormDenominator(np)
        num == w[1] * (pt.EC - np.EC_ideal) * dPL
                 + 10 * w[2] * (pt.a.PL - np.PL_ideal) * dEC
    IN  IF dEC * dPL > 0 THEN num ELSE 0 - num

\* the points the Solver may return for the weighted objective: none when
\* the model is infeasible, or unbounded because PL has a negative coefficient
MinimizeWeighted(model, np, w) ==
    IF SolveStatus(model) # "Optimal" \/ (w[2] > 0 /\ PLNormDenominator(np) < 0)
      THEN {}
      ELSE LET best == MinOf({WeightedObjective(pt, np, w) : pt \in model})
           IN  {pt \in model : WeightedObjective(pt, np, w) = best}

\* get_normalization_factors(), called on its own.  locals keeps the tuple
\* get_nadir_points returned to it; it returns the ideals with EC_norm and
\* PL_norm (kept as the denominators they are the reciprocals of), or raises
GetNormalizationFactors ==
    /\ pc = "idle"
    /\ \E model \in {BuildBaseModel(params)} :
          \E np \in GetNadirPoints(model) :
             \* get_EC_ideal, get_PL_ideal, EC_Only, PL_Only
             /\ solves' = 4
             /\ reference' = Ideals(model)
             /\ Return("get_normalization_factors", <<0, 0>>, np, NotSolved,
                       IF NormalizationRaises(np)
                         THEN Raised
                         ELSE [kind |-> "Factors",
                               EC_ideal |-> np.EC_ideal,
                               PL_ideal |-> np.PL_ideal,
                               EC_norm_denominator |-> ECNormDenominator(np),
                               PL_norm_denominator |-> PLNormDenominator(np)])

\* solve_weighted_sum(w_EC, w_PL)
SolveWeightedSum ==
    /\ pc = "idle"
    /\ \E model \in {BuildBaseModel(params)} :
          \E np \in GetNadirPoints(model), got \in {Ideals(model)},
             w \in WeightedSumWeights :
             /\ reference' = got
             /\ IF NormalizationRaises(np)
                  THEN \* the four solves of get_nadir_points
                       /\ solves' = 4
                       /\ Return("Weighted_Sum", w, got, NotSolved, Raised)
                  ELSE /\ solves' = 5
                       /\ SolveAndExtract("Weighted_Sum", w, got,
                                          MinimizeWeighted(model, np, w))

\* EC_ideal and PL_ideal of solve_compromise_programming, both in tenths:
\*   get_EC_ideal() or 0.1,  get_PL_ideal() or 0.1
CompromiseIdeals(model) ==
    [EC |-> OrElse(GetECIdeal(model), 1),
     PL |-> LET v == GetPLIdeal(model)
            IN  OrElse([none |-> v.none, val |-> 10 * v.val], 1)]

\* the denominators of the two deviation constraints (thousandths):
\*   max(EC_ideal, 0.001),  max(PL_ideal, 0.001)
CompromiseDenominators(ideal) ==
    [EC |-> Max2(100 * ideal.EC, 1), PL |-> Max2(100 * ideal.PL, 1)]

\* whether building the deviation constraints raises ZeroDivisionError
CompromiseRaises(ideal) ==
    CompromiseDenominators(ideal).EC = 0 \/ CompromiseDenominators(ideal).PL = 0

\* the least Maximum_Deviation the two deviation constraints allow at a
\* point, up to a positive factor:
\*   max(0, w_EC * (EC - EC_ideal) / max(EC_ideal, 0.001),
\*          w_PL * (PL - PL_ideal) / max(PL_ideal, 0.001))
\* with the denominators in thousandths
MaximumDeviation(pt, ideal, w) ==
    LET mEC == CompromiseDenominators(ideal).EC
        mPL == CompromiseDenominators(ideal).PL
    IN  Max2(0, Max2(w[1] * (pt.EC - ideal.EC) * mPL,
                     w[2] * (10 * pt.a.PL - ideal.PL) * mEC))

\* the points the Solver may return when Maximum_Deviation is the objective
MinimizeDeviation(model, ideal, w) ==
    IF SolveStatus(model) # "Optimal"
      THEN {}
      ELSE LET best == MinOf({MaximumDeviation(pt, ideal, w) : pt \in model})
           IN  {pt \in model : MaximumDeviation(pt, ideal, w) = best}

\* the least value over the base region of
\*   max(0, w_EC * (EC - EC_ideal) / max(EC_ideal, 0.001),
\*          w_PL * (PL - PL_ideal) / max(PL_ideal, 0.001))
\* with the ideals get_EC_ideal and get_PL_ideal returned, scaled as
\* MaximumDeviation scales it
LeastDeviation(model, got, w) ==
    IF SolveStatus(model) # "Optimal"
      THEN None
      ELSE LET ideal == [EC |-> got.EC_ideal.val, PL |-> 10 * got.PL_ideal.val]
           IN  Some(MinOf({MaximumDeviation(pt, ideal, w) : pt \in model}))

\* the ideals with that value beside them
WithLeastDeviation(got, least) ==
    [EC_ideal |-> got.EC_ideal, PL_ideal |-> got.PL_ideal,
     least_deviation |-> least]

\* a variant of the count below for a solve_compromise_programming that
\* calibrates with get_normalization_factors as solve_weighted_sum does
CompromiseSolvesCalibrated(raises) == IF raises THEN 4 ELSE 5

\* the number of model.solve calls of solve_compromise_programming:
\* get_EC_ideal and get_PL_ideal, and its own solve unless building the
\* deviation constraints raised
CompromiseSolves(raises) == IF raises THEN 2 ELSE 3

\* solve_compromise_programming(w_EC, w_PL)
SolveCompromiseProgramming ==
    /\ pc = "idle"
    /\ \E model \in {BuildBaseModel(params)} :
          \E ideal \in {CompromiseIdeals(model)}, got \in {Ideals(model)},
             w \in CompromiseWeights :
             /\ reference' = WithLeastDeviation(got, LeastDeviation(model, got, w))
             /\ solves' = CompromiseSolves(CompromiseRaises(ideal))
             /\ IF CompromiseRaises(ideal)
                  THEN \* get_EC_ideal and get_PL_ideal
                       Return("Compromise_Programming", w,
                              [EC_ideal |-> ideal.EC, PL_ideal |-> ideal.PL],
                              NotSolved, Raised)
                  ELSE SolveAndExtract("Compromise_Programming", w,
                                       [EC_ideal |-> ideal.EC,
                                        PL_ideal |-> ideal.PL],
                                       MinimizeDeviation(model, ideal, w))

\* main: the caller has collected the result and goes on to its next call
Continue ==
    /\ pc = "returned"
    /\ pc' = "idle"
    /\ approach' = NoApproach
    /\ locals' = NoLocals
    /\ solved' = NotSolved
    /\ result' = Pending
    /\ solves' = 0
    /\ reference' = NoLocals
    /\ UNCHANGED <<params, mainvars>>

Next ==
    \/ SolvePreemptiveECFirst
    \/ SolvePreemptivePLFirst
    \/ SolveWeightedSum
    \/ SolveCompromiseProgramming
    \/ GetNormalizationFactors
    \/ Continue

Spec == Init /\ [][Next]_vars

(***************************************************************************)
(* The worked scenario: T = 4, one system with budget 100, two machines    *)
(* with R = 2, 3 and N = 2, 1, both with the window [1, 4], prices 0.10,    *)
(* 0.20, 0.30, 0.40, no incentives, alpha = 1, no dependency.              *)
(***************************************************************************)
ScenarioParams ==
    [I |-> 2, T |-> 4, S |-> 1,
     R |-> [k \in {<<1, 1>>, <<2, 1>>} |-> IF k[1] = 1 THEN 2 ELSE 3],
     N |-> [k \in {<<1, 1>>, <<2, 1>>} |-> IF k[1] = 1 THEN 2 ELSE 1],
     E |-> [k \in {<<1, 1>>, <<2, 1>>} |-> 1],
     L |-> [k \in {<<1, 1>>, <<2, 1>>} |-> 4],
     c |-> <<1, 2, 3, 4>>, o |-> <<0, 0, 0, 0>>, alpha |-> 1,
     A |-> [s \in 1 .. 1 |-> 1000],
     dep |-> [k \in {} |-> 1]]

InitScenario ==
    /\ params = ScenarioParams
    /\ pc = "idle"
    /\ approach = NoApproach
    /\ locals = NoLocals
    /\ solved = NotSolved
    /\ result = Pending
    /\ solves = 0
    /\ reference = NoLocals
    /\ NotInMain

SpecScenario == InitScenario /\ [][Next]_vars

(***************************************************************************)
(* A run of main: the four strategies in turn, compare_approaches,         *)
(* save_results_to_sheets, and the ScheduleFormatter reading the           *)
(* OptimizedSchedule worksheet back.  A worksheet is NoTable while the     *)
(* workbook has none of that title, else the rows written to it; the       *)
(* timestamp cells are left out.                                           *)
(***************************************************************************)
\* the columns of the DataFrame extract_results makes of _extract_schedule
ScheduleColumns == <<"SystemID", "MachineID", "TimeSlot", "Status", "Power">>

\* [df.columns.tolist()] + df.values.tolist() of a schedule DataFrame
ScheduleTable(df) ==
    <<ScheduleColumns>>
      \o [n \in 1 .. Len(df) |->
            [k \in 1 .. Len(ScheduleColumns) |-> df[n][ScheduleColumns[k]]]]

\* worksheet.get_all_records(): one record per value row, keyed by the
\* header row
GetAllRecords(table) ==
    LET header == Head(table)
        rows == Tail(table)
    IN  [n \in 1 .. Len(rows) |->
           [col \in {header[k] : k \in 1 .. Len(header)} |->
              rows[n][CHOOSE k \in 1 .. Len(header) : header[k] = col]]]

\* the comparison table of compare_approaches and save_results_to_sheets:
\* a row per approach in the order of main's dictionary
ApproachKeys == <<"PR_EC_first", "PR_PL_first", "WS", "CP">>

\* all(results_dict.values()): every approach has a result, none is None
AllSolved(results_dict) ==
    \A k \in DOMAIN results_dict : results_dict[k].kind = "Result"

ComparisonTable(results_dict) ==
    [n \in 1 .. Len(ApproachKeys) |->
       [Approach |-> ApproachKeys[n],
        EC |-> results_dict[ApproachKeys[n]].EC,
        PL |-> results_dict[ApproachKeys[n]].PL]]

\* convert_time_slot_to_time: <<HH, MM>> of the start of a slot
ConvertTimeSlotToTime(time_slot, slot_duration_minutes) ==
    LET minutes_since_midnight == (time_slot - 1) * slot_duration_minutes
    IN  <<(minutes_since_midnight \div 60) % 24, minutes_since_midnight % 60>>

\* the rows of df for one machine, sorted by TimeSlot
RECURSIVE SortByTimeSlot(_)
SortByTimeSlot(rows) ==
    IF rows = <<>>
      THEN <<>>
      ELSE LET least == CHOOSE n \in 1 .. Len(rows) :
                           \A m \in 1 .. Len(rows) :
                              /\ rows[n].TimeSlot <= rows[m].TimeSlot
                              /\ rows[n].TimeSlot = rows[m].TimeSlot => n <= m
           IN  <<rows[least]>>
                 \o SortByTimeSlot([n \in 1 .. Len(rows) - 1 |->
                                      IF n < least THEN rows[n] ELSE rows[n + 1]])

\* the loop of format_schedule over the rows of a machine: a <<TimeSlot,
\* Status>> for every row whose Status differs from the one before it,
\* starting from prev_status = 0
RECURSIVE StatusChanges(_, _)
StatusChanges(rows, prev_status) ==
    IF rows = <<>>
      THEN <<>>
      ELSE IF Head(rows).Status # prev_status
             THEN <<<<Head(rows).TimeSlot, Head(rows).Status>>>>
                    \o StatusChanges(Tail(rows), Head(rows).Status)
             ELSE StatusChanges(Tail(rows), prev_status)

\* the operation periods format_schedule appends for one machine:
\*   for i in range(0, len(status_changes) - 1, 2)
MachinePeriods(p, df, system_id, machine_id) ==
    LET machine_schedule ==
            SortByTimeSlot(SelectSeq(df, LAMBDA r : /\ r.SystemID = system_id
                                                   /\ r.MachineID = machine_id))
        status_changes == StatusChanges(machine_schedule, 0)
        slot_duration_minutes == 60 * p.alpha
        on_rows == SelectSeq(machine_schedule, LAMBDA r : r.Status = 1)
        power == IF on_rows = <<>> THEN 0 ELSE on_rows[1].Power
    IN  [n \in 1 .. (Len(status_changes) \div 2) |->
           LET start_slot == status_changes[2 * n - 1][1]
               end_slot == status_changes[2 * n][1] - 1
               duration_slots == end_slot - start_slot + 1
           IN  [SystemID |-> system_id, MachineID |-> machine_id,
                MachineName |-> <<"Machine", machine_id>>,
                StartSlot |-> start_slot, EndSlot |-> end_slot,
                StartTime |-> ConvertTimeSlotToTime(start_slot,
                                                    slot_duration_minutes),
                EndTime |-> ConvertTimeSlotToTime(end_slot + 1,
                                                  slot_duration_minutes),
                DurationSlots |-> duration_slots,
                DurationMinutes |-> duration_slots * slot_duration_minutes,
                Power |-> power,
                EnergyConsumption |-> power * duration_slots * p.alpha]]

\* df[['SystemID', 'MachineID']].drop_duplicates(): the pairs in the order
\* of their first rows
RECURSIVE DropDuplicates(_)
DropDuplicates(df) ==
    IF df = <<>>
      THEN <<>>
      ELSE LET rest == DropDuplicates(SubSeq(df, 1, Len(df) - 1))
               last == <<df[Len(df)].SystemID, df[Len(df)].MachineID>>
           IN  IF \E n \in 1 .. Len(rest) : rest[n] = last
                 THEN rest
                 ELSE Append(rest, last)

\* operation_periods of format_schedule: the periods of the machines, one
\* machine after the other
RECURSIVE PeriodsOf(_, _, _)
PeriodsOf(p, df, system_machines) ==
    IF system_machines = <<>>
      THEN <<>>
      ELSE MachinePeriods(p, df, Head(system_machines)[1],
                          Head(system_machines)[2])
             \o PeriodsOf(p, df, Tail(system_machines))

\* format_schedule on the schedule load_data read
FormatScheduleOf(p, df) == PeriodsOf(p, df, DropDuplicates(df))

\* the rows create_daily_schedule_view writes: for each machine with a
\* period, the 10-minute intervals (0..143) it marks "ON"
DailyRows(periods) ==
    LET machines == DropDuplicates(periods)
        Index(time) == time[1] * 6 + (time[2] \div 10)
        EndIndex(time) == Index(time) + IF time[2] % 10 > 0 THEN 1 ELSE 0
    IN  [n \in 1 .. Len(machines) |->
           [SystemID |-> machines[n][1], MachineID |-> machines[n][2],
            ON |-> {interval \in 0 .. 143 :
                      \E k \in 1 .. Len(periods) :
                         /\ periods[k].SystemID = machines[n][1]
                         /\ periods[k].MachineID = machines[n][2]
                         /\ Index(periods[k].StartTime) <= interval
                         /\ interval < EndIndex(periods[k].EndTime)}]]

\* the parameter sets a run of main is started on: one system, machine 1
\* any of the kinds that need one slot and machine 2 needing two slots, an
\* ample budget or one only incentives can meet, either tariff
MainParams ==
    {MakeParams(OneSystem,
                [i \in 1 .. NumMachines |->
                   IF i = 1 THEN first
                   ELSE [R |-> 2, N |-> 2, win |-> <<1, NumSlots>>]],
                tariff, budget, FALSE) :
       first \in {k \in MachineKinds : k.N = 1}, tariff \in Tariffs,
       budget \in {1000, -10}}

\* the schedule an earlier run left in the workbook: machine 1 of system 1,
\* then rated 5 kW, on in slots 1 and 2
LeftoverSchedule ==
    [t \in 1 .. NumSlots |->
       [SystemID |-> 1, MachineID |-> 1, TimeSlot |-> t,
        Status |-> IF t <= 2 THEN 1 ELSE 0,
        Power |-> IF t <= 2 THEN 5 ELSE 0]]

\* the worksheets that run left
LeftoverSheets ==
    LET periods == FormatScheduleOf([alpha |-> 1], LeftoverSchedule)
    IN  [OptimizationResults |->
           Some([n \in 1 .. Len(ApproachKeys) |->
                   [Approach |-> ApproachKeys[n], EC |-> 150, PL |-> 5]]),
         OptimizedSchedule |-> Some(ScheduleTable(LeftoverSchedule)),
         MachineOperationSchedule |-> Some(periods),
         DailyScheduleView |-> Some(DailyRows(periods))]

\* main has loaded the parameters and is about to call the first strategy;
\* the workbook is new, or holds the worksheets of an earlier run
InitMain ==
    /\ params \in MainParams
    /\ pc = "idle"
    /\ approach = NoApproach
    /\ locals = NoLocals
    /\ solved = NotSolved
    /\ result = Pending
    /\ solves = 0
    /\ reference = NoLocals
    /\ stage = "ec_first"
    /\ all_results = [k \in {ApproachKeys[n] : n \in 1 .. Len(ApproachKeys)} |->
                        Pending]
    /\ total_solves = 0
    /\ comparison_df = NoTable
    /\ sheet \in {NoSheets, LeftoverSheets}
    /\ schedule_df = NoTable
    /\ periods_df = NoTable

\* main.py:32  optimizer.solve_preemptive_EC_first()
RunECFirst == stage = "ec_first" /\ SolvePreemptiveECFirst

\* main.py:33  optimizer.solve_preemptive_PL_first()
RunPLFirst == stage = "pl_first" /\ SolvePreemptivePLFirst

\* main.py:34  optimizer.solve_weighted_sum(w_EC=0.7, w_PL=0.3)
RunWeightedSum ==
    /\ stage = "ws"
    /\ SolveWeightedSum
    /\ approach'.w_EC = 7 /\ approach'.w_PL = 3

\* main.py:35  optimizer.solve_compromise_programming(w_EC=0.5, w_PL=0.5)
RunCompromiseProgramming ==
    /\ stage = "cp"
    /\ SolveCompromiseProgramming
    /\ approach'.w_EC = 5 /\ approach'.w_PL = 5

\* the call of main that follows a stage, and the key its result gets in
\* all_results
StageAfter(st) ==
    CASE st = "ec_first" -> "pl_first"
      [] st = "pl_first" -> "ws"
      [] st = "ws" -> "cp"
      [] st = "cp" -> "compare"

KeyOf(st) ==
    CASE st = "ec_first" -> "PR_EC_first"
      [] st = "pl_first" -> "PR_PL_first"
      [] st = "ws" -> "WS"
      [] st = "cp" -> "CP"

\* main binds what the strategy returned and goes on to its next call; an
\* exception that escaped the strategy ends the run
Collect ==
    /\ stage \in {"ec_first", "pl_first", "ws", "cp"}
    /\ pc = "returned"
    /\ pc' = "idle"
    /\ approach' = NoApproach
    /\ locals' = NoLocals
    /\ solved' = NotSolved
    /\ result' = Pending
    /\ solves' = 0
    /\ reference' = NoLocals
    /\ total_solves' = total_solves + solves
    /\ IF result.kind = "ZeroDivisionError"
         THEN stage' = "crashed" /\ UNCHANGED all_results
         ELSE /\ stage' = StageAfter(stage)
              /\ all_results' = [all_results EXCEPT ![KeyOf(stage)] = result]
    /\ UNCHANGED <<params, comparison_df, sheet, schedule_df, periods_df>>

\* what a step of main after the strategies leaves alone
callvars == <<pc, approach, locals, solved, result, solves, reference>>

\* results_manager.compare_approaches(all_results): None unless every
\* approach has a result.  plot_comparison, called next, writes image files
\* only, and nothing unless every approach has a result
CompareApproaches ==
    /\ stage = "compare"
    /\ comparison_df' = IF AllSolved(all_results)
                          THEN Some(ComparisonTable(all_results))
                          ELSE NoTable
    /\ stage' = "save"
    /\ UNCHANGED <<params, callvars, all_results, total_solves, sheet,
                   schedule_df, periods_df>>

\* results_manager.save_results_to_sheets(all_results): returns False at
\* once unless every approach has a result; else writes the comparison to
\* OptimizationResults and the Schedule of 'WS' to OptimizedSchedule,
\* clearing or adding each worksheet
SaveResultsToSheets ==
    /\ stage = "save"
    /\ sheet' = IF AllSolved(all_results)
                  THEN [sheet EXCEPT
                          !.OptimizationResults =
                              Some(ComparisonTable(all_results)),
                          !.OptimizedSchedule =
                              Some(ScheduleTable(all_results["WS"].Schedule))]
                  ELSE sheet
    /\ stage' = "load"
    /\ UNCHANGED <<params, callvars, all_results, total_solves, comparison_df,
                   schedule_df, periods_df>>

\* formatter.load_data(): the records of the OptimizedSchedule worksheet;
\* WorksheetNotFound ends the run when the workbook has none
LoadData ==
    /\ stage = "load"
    /\ IF sheet.OptimizedSchedule.none
         THEN stage' = "crashed" /\ UNCHANGED schedule_df
         ELSE /\ schedule_df' = Some(GetAllRecords(sheet.OptimizedSchedule.val))
              /\ stage' = "format"
    /\ UNCHANGED <<params, callvars, all_results, total_solves, comparison_df,
                   sheet, periods_df>>

\* formatter.format_schedule(): a DataFrame of no records has no column
\* SystemID, and the KeyError ends the run
FormatSchedule ==
    /\ stage = "format"
    /\ IF schedule_df.val = <<>>
         THEN stage' = "crashed" /\ UNCHANGED periods_df
         ELSE /\ periods_df' = Some(FormatScheduleOf(params, schedule_df.val))
              /\ stage' = "publish"
    /\ UNCHANGED <<params, callvars, all_results, total_solves, comparison_df,
                   sheet, schedule_df>>

\* formatter.save_formatted_schedule(periods_df)
SaveFormattedSchedule ==
    /\ stage = "publish"
    /\ sheet' = [sheet EXCEPT !.MachineOperationSchedule = periods_df]
    /\ stage' = "daily"
    /\ UNCHANGED <<params, callvars, all_results, total_solves, comparison_df,
                   schedule_df, periods_df>>

\* formatter.create_daily_schedule_view(periods_df)
CreateDailyScheduleView ==
    /\ stage = "daily"
    /\ sheet' = [sheet EXCEPT
                   !.DailyScheduleView = Some(DailyRows(periods_df.val))]
    /\ stage' = "done"
    /\ UNCHANGED <<params, callvars, all_results, total_solves, comparison_df,
                   schedule_df, periods_df>>

NextMain ==
    \/ RunECFirst
    \/ RunPLFirst
    \/ RunWeightedSum
    \/ RunCompromiseProgramming
    \/ Collect
    \/ CompareApproaches
    \/ SaveResultsToSheets
    \/ LoadData
    \/ FormatSchedule
    \/ SaveFormattedSchedule
    \/ CreateDailyScheduleView

\* the run of main
SpecMain == InitMain /\ [][NextMain]_vars

(***************************************************************************)
(* A caller that invokes the four strategies on one instance in any order, *)
(* any number of times, keeping the latest result of each.                 *)
(***************************************************************************)
\* the parameter sets of that caller: one system with an ample budget,
\* machine 1 of 2 kW bound to slot 1 and machine 2 needing two slots, either
\* tariff; with the incentive the cheapest schedule has the higher peak
AnyOrderParams ==
    {MakeParams(OneSystem,
                [i \in 1 .. NumMachines |->
                   IF i = 1 THEN [R |-> 2, N |-> 1, win |-> <<1, 1>>]
                   ELSE [R |-> 2, N |-> 2, win |-> <<1, NumSlots>>]],
                tariff, 1000, FALSE) :
       tariff \in Tariffs}

InitAnyOrder ==
    /\ params \in AnyOrderParams
    /\ pc = "idle"
    /\ approach = NoApproach
    /\ locals = NoLocals
    /\ solved = NotSolved
    /\ result = Pending
    /\ solves = 0
    /\ reference = NoLocals
    /\ stage = "any"
    /\ all_results = [k \in {ApproachKeys[n] : n \in 1 .. Len(ApproachKeys)} |->
                        Pending]
    /\ total_solves = 0
    /\ comparison_df = NoTable
    /\ sheet = NoSheets
    /\ schedule_df = NoTable
    /\ periods_df = NoTable

\* the key main gives the result of a strategy
KeyOfApproach(name) ==
    CASE name = "PR_EC_First" -> "PR_EC_first"
      [] name = "PR_PL_First" -> "PR_PL_first"
      [] name = "Weighted_Sum" -> "WS"
      [] name = "Compromise_Programming" -> "CP"

\* the caller keeps what the strategy returned (or that it raised) under the
\* strategy's key, in place of what an earlier call of it returned, and goes
\* on to its next call
Rebind ==
    /\ stage = "any"
    /\ pc = "returned"
    /\ pc' = "idle"
    /\ approach' = NoApproach
    /\ locals' = NoLocals
    /\ solved' = NotSolved
    /\ result' = Pending
    /\ solves' = 0
    /\ reference' = NoLocals
    /\ all_results' = [all_results EXCEPT ![KeyOfApproach(approach.name)] = result]
    /\ UNCHANGED <<params, stage, total_solves, comparison_df, sheet,
                   schedule_df, periods_df>>

\* the calls of that caller, the weighted ones with the weights main uses
CallWeightedSum ==
    /\ stage = "any"
    /\ SolveWeightedSum
    /\ approach'.w_EC = 7 /\ approach'.w_PL = 3

CallCompromiseProgramming ==
    /\ stage = "any"
    /\ SolveCompromiseProgramming
    /\ approach'.w_EC = 5 /\ approach'.w_PL = 5

NextAnyOrder ==
    \/ SolvePreemptiveECFirst
    \/ SolvePreemptivePLFirst
    \/ CallWeightedSum
    \/ CallCompromiseProgramming
    \/ Rebind

SpecAnyOrder == InitAnyOrder /\ [][NextAnyOrder]_vars

(***************************************************************************)
(* Properties of the results.                                              *)
(***************************************************************************)
\* a strategy has returned a result dictionary
HasResult == pc = "returned" /\ result.kind = "Result"

\* Status of machine i of system s in slot t in a Schedule; 0 when the
\* Schedule has no row for it
StatusIn(schedule, i, t, s) ==
    IF \E n \in DOMAIN schedule :
          /\ schedule[n].MachineID = i /\ schedule[n].TimeSlot = t
          /\ schedule[n].SystemID = s
          /\ schedule[n].Status = 1
      THEN 1 ELSE 0

\* the slots of 1..T in which machine i of system s is on in the result
OnSlots(i, s) ==
    {t \in 1 .. params.T : StatusIn(result.Schedule, i, t, s) = 1}

\* C1: in the Schedule of every result a strategy returns, the on-slots of
\* every valid (machine, system) pair form at most one contiguous block:
\* no slots t1 < t2 < t3 are on, off, on.
C1_OneContiguousRun ==
    HasResult =>
       \A k \in DOMAIN params.R :
          \A t1, t2, t3 \in 1 .. params.T :
             (t1 < t2 /\ t2 < t3)
                => ~(/\ t1 \in OnSlots(k[1], k[2])
                     /\ t2 \notin OnSlots(k[1], k[2])
                     /\ t3 \in OnSlots(k[1], k[2]))

\* C1 at work: a result in which a machine runs two slots on end although
\* the two cheapest slots of the tariff are not adjacent
C1_Witness ==
    /\ HasResult
    /\ params.T >= 3
    /\ params.c[1] < params.c[2] /\ params.c[3] < params.c[2]
    /\ \E k \in DOMAIN params.R :
          params.N[k] = 2 /\ Cardinality(OnSlots(k[1], k[2])) = 2

\* C3: in every result a strategy returns, every pair with E and L defined
\* and N > 0 is on in at least N slots t with E <= t <= L.
C3_MinimumDuration ==
    HasResult =>
       \A k \in DOMAIN params.E \cap DOMAIN params.L :
          NGet(params, k[1], k[2]) > 0
             => Cardinality({t \in OnSlots(k[1], k[2]) :
                               params.E[k] <= t /\ t <= params.L[k]})
                  >= NGet(params, k[1], k[2])

\* C3 at work: a result for a machine whose one window slot is its dearest,
\* which is on in that slot
C3_Witness ==
    /\ HasResult
    /\ \E k \in DOMAIN params.E \cap DOMAIN params.L :
          /\ params.N[k] = 1
          /\ params.E[k] = 2 /\ params.L[k] = 2
          /\ params.c[2] - params.o[2] > params.c[1]
          /\ 2 \in OnSlots(k[1], k[2])

\* C5: in every result a strategy returns, for every system s separately,
\* the net spend  sum over t, i of R * (c * x - o * y) * alpha  is at most
\* A[s]; slack in another system's budget does not raise it.
C5_BudgetPerSystem ==
    HasResult =>
       \A s \in 1 .. params.S :
          NetSpend(params, solved.a.x, solved.a.y, s) <= params.A[s]

\* C5 at work: a result for two systems in which system 1 spends its whole
\* budget while system 2 has budget to spare
C5_Witness ==
    /\ HasResult
    /\ params.S = 2
    /\ NetSpend(params, solved.a.x, solved.a.y, 1) = params.A[1]
    /\ NetSpend(params, solved.a.x, solved.a.y, 2) < params.A[2]

\* C2: for every registered dependency (i, s) -> i_star, in every result a
\* strategy returns, whenever machine i of system s is on in slot t its
\* predecessor was on in some slot before t and is off in slot t (its run
\* has ended); a predecessor with N = 0 or outside system s included.
C2_PredecessorHasRun ==
    HasResult =>
       \A k \in DOMAIN params.dep :
          \A t \in OnSlots(k[1], k[2]) :
             /\ \E t0 \in OnSlots(params.dep[k], k[2]) : t0 < t
             /\ t \notin OnSlots(params.dep[k], k[2])

\* C4: in every result a strategy returns, a machine with E and L defined
\* is off in every slot before E and in every slot after L.
C4_OffOutsideWindow ==
    HasResult =>
       \A k \in DOMAIN params.E \cap DOMAIN params.L :
          \A t \in OnSlots(k[1], k[2]) : params.E[k] <= t /\ t <= params.L[k]

\* C6: whenever step 1 of Preemptive EC-first reaches optimal status with
\* value optimal_EC, step 2 is feasible and the strategy returns a result,
\* whatever the sign of optimal_EC.
C6_StepTwoKeepsOptimum ==
    (pc = "returned" /\ approach.name = "PR_EC_First"
       /\ ~locals.optimal_EC.none)
       => result.kind = "Result"

\* C7: the tuple get_nadir_points returns has EC_nadir > EC_ideal strictly,
\* for every input (EC_nadir in hundredths, EC_ideal in tenths).
C7_NadirAboveIdeal ==
    (pc = "returned" /\ approach.name = "get_normalization_factors")
       => locals.EC_nadir > 10 * locals.EC_ideal

\* C8: no division by exact zero: the denominators EC_nadir - EC_ideal and
\* PL_nadir - PL_ideal of get_normalization_factors are non-zero after the
\* perturbation step, and so are max(EC_ideal, 0.001) and max(PL_ideal,
\* 0.001) of compromise programming, so that no call ends in
\* ZeroDivisionError.
C8_NoDivisionByZero ==
    pc = "returned" =>
       /\ approach.name = "get_normalization_factors"
             => (ECNormDenominator(locals) # 0 /\ PLNormDenominator(locals) # 0)
       /\ result.kind # "ZeroDivisionError"

\* C9: for every feasible parameter set, solve_weighted_sum(1, 0) returns a
\* result whose EC is the value get_EC_ideal returns.
C9_WeightedSumReproducesECIdeal ==
    (pc = "returned" /\ approach.name = "Weighted_Sum"
       /\ approach.w_EC = 10 /\ approach.w_PL = 0
       /\ ~locals.EC_ideal.none)
       => (result.kind = "Result" /\ result.EC = locals.EC_ideal.val)

\* C10: for every feasible parameter set, solve_weighted_sum(0, 1) returns a
\* result whose PL is the value get_PL_ideal returns.
C10_WeightedSumReproducesPLIdeal ==
    (pc = "returned" /\ approach.name = "Weighted_Sum"
       /\ approach.w_EC = 0 /\ approach.w_PL = 10
       /\ ~locals.PL_ideal.none)
       => (result.kind = "Result" /\ result.PL = locals.PL_ideal.val)

\* a call has returned on parameters whose base region is empty: get_EC_ideal
\* finds no optimum there
ReturnedInfeasible == pc = "returned" /\ reference.EC_ideal.none

\* C11: on parameters whose base region is empty every strategy returns None
\* and none raises.  The two pre-emptive strategies stop after their first
\* solve and hand no model to extract_results; Weighted_Sum and
\* Compromise_Programming run all their solves (5 and 3) and get None from
\* extract_results on a model that is not Optimal; the calibration of
\* get_normalization_factors ends on the fallback values (ideals 0, nadirs
\* 100 and 20) without raising.
C11_InfeasibleReturnsNone ==
    ReturnedInfeasible =>
        /\ approach.name \in {"PR_EC_First", "PR_PL_First"} =>
              result = NoResult /\ solves = 1 /\ solved = NotSolved
        /\ approach.name = "Weighted_Sum" =>
              result = NoResult /\ solves = 5 /\ solved.status = "Not Optimal"
        /\ approach.name = "Compromise_Programming" =>
              result = NoResult /\ solves = 3 /\ solved.status = "Not Optimal"
        /\ approach.name = "get_normalization_factors" =>
              /\ result.kind = "Factors"
              /\ locals = [EC_ideal |-> 0, PL_ideal |-> 0,
                           EC_nadir |-> 10000, PL_nadir |-> 2000]

\* Weighted_Sum has returned None on an infeasible parameter set
C11_Witness ==
    /\ ReturnedInfeasible
    /\ approach.name = "Weighted_Sum"
    /\ result = NoResult
    /\ solves = 5

\* the largest entry of the LoadProfile of the result
ProfileMaximum == MaxOf({result.LoadProfile[t] : t \in 1 .. params.T})

\* C12: in every result a strategy returns, the reported PL equals the
\* largest entry of the reported LoadProfile, also when the last solve of the
\* strategy does not minimise PL.
C12_PeakLoadIsProfileMaximum == HasResult => result.PL = ProfileMaximum

\* the rated power of the machines the Schedule reports on in slot t
ScheduledPower(schedule, t) ==
    SumTo([n \in 1 .. Len(schedule) |->
             IF schedule[n].TimeSlot = t
               THEN RGet(params, schedule[n].MachineID, schedule[n].SystemID)
                      * schedule[n].Status
               ELSE 0],
          Len(schedule))

\* C13: in every result, LoadProfile[t] is the sum, over the (machine, system)
\* pairs with a rated power, of the rated power times the Status the Schedule
\* reports for the pair in slot t.
C13_LoadProfileMatchesSchedule ==
    HasResult =>
        \A t \in 1 .. params.T :
            result.LoadProfile[t] = ScheduledPower(result.Schedule, t)

\* a result of a two-system layout in which machines of both systems are on
\* in the same slot
C13_Witness ==
    /\ HasResult
    /\ params.S = 2
    /\ \E t \in 1 .. params.T, i \in 1 .. params.I, j \in 1 .. params.I :
          /\ StatusIn(result.Schedule, i, t, 1) = 1
          /\ StatusIn(result.Schedule, j, t, 2) = 1
          /\ result.LoadProfile[t] = RGet(params, i, 1) + RGet(params, j, 2)

\* C14: in every result, PL is at least LoadProfile[t] for every slot t.
C14_PeakLoadBoundsProfile ==
    HasResult => \A t \in 1 .. params.T : result.PL >= result.LoadProfile[t]

\* a result whose load differs between two slots, the larger one after slot
\* 1, with PL on the larger
C14_Witness ==
    /\ HasResult
    /\ \E t \in 2 .. params.T :
          /\ result.LoadProfile[1] < result.LoadProfile[t]
          /\ result.PL = result.LoadProfile[t]

\* C15: whenever solve_preemptive_EC_first returns a result, get_PL_ideal
\* finds an optimum on the same parameters and the PL of the result is at
\* least that PL ideal.
C15_ECFirstPeakAtLeastIdeal ==
    (HasResult /\ approach.name = "PR_EC_First") =>
        /\ ~reference.PL_ideal.none
        /\ result.PL >= reference.PL_ideal.val

\* a result of solve_preemptive_EC_first whose PL is above the PL ideal: the
\* cheapest schedules do not have the lowest peak
C15_Witness ==
    /\ HasResult
    /\ approach.name = "PR_EC_First"
    /\ result.PL > reference.PL_ideal.val

\* C16: the tuple get_nadir_points returns has PL_nadir strictly above
\* PL_ideal, on feasible and on infeasible parameters, a PL ideal of 0
\* included (PL_nadir in hundredths of a kW, PL_ideal in kW).
C16_PLNadirAbovePLIdeal ==
    (pc = "returned" /\ approach.name = "get_normalization_factors") =>
        locals.PL_nadir > 100 * locals.PL_ideal

\* get_nadir_points on feasible parameters whose PL ideal is 0 and whose
\* EC-only optimum came back with PL = 0: PL_nadir was moved to 0.1
C16_Witness ==
    /\ pc = "returned"
    /\ approach.name = "get_normalization_factors"
    /\ ~reference.PL_ideal.none
    /\ locals.PL_ideal = 0
    /\ locals.PL_nadir = 10

\* C19: the EC of every result, which the extractor recomputes from the
\* values of x and y over the pairs with a rated power, equals the EC
\* expression of calculate_EC_expression at the values the Solver returned,
\* also when some (machine, system) pairs have no rated power and when the
\* objective solved was not EC itself.
C19_ExtractedECIsExpression ==
    HasResult =>
        result.EC = CalculateECExpression(params, solved.a.x, solved.a.y)

\* a result of Weighted_Sum or Compromise_Programming on a two-system layout,
\* where each machine has a rated power in one system only, with an
\* incentive taken and a cost that is not 0
C19_Witness ==
    /\ HasResult
    /\ approach.name \in {"Weighted_Sum", "Compromise_Programming"}
    /\ \E k \in VarPairs(params) : k \notin DOMAIN params.R
    /\ \E k \in DOMAIN params.R, t \in 1 .. params.T :
          solved.a.y[k][t] = 1 /\ params.o[t] > 0
    /\ result.EC # 0

\* the rows of the Schedule for machine i of system s in slot t
RowsOf(schedule, i, t, s) ==
    {n \in DOMAIN schedule :
        /\ schedule[n].MachineID = i
        /\ schedule[n].TimeSlot = t
        /\ schedule[n].SystemID = s}

\* C20: the Schedule of every result has exactly one row for each (s, i, t)
\* with (i, s) in R and 1 <= t <= T and no other row; the Status of the row
\* is 1 exactly when the value of x[(i, t, s)] is above 0.5, and its Power is
\* R[(i, s)] when the Status is 1 and 0 otherwise.
C20_ScheduleShape ==
    HasResult =>
        /\ \A s \in 1 .. params.S, i \in 1 .. params.I, t \in 1 .. params.T :
              LET rows == RowsOf(result.Schedule, i, t, s)
              IN  IF <<i, s>> \in DOMAIN params.R
                    THEN /\ Cardinality(rows) = 1
                         /\ \A n \in rows :
                               LET row == result.Schedule[n]
                               IN  /\ row.Status \in {0, 1}
                                   /\ row.Status = 1
                                         <=> 2 * solved.a.x[<<i, s>>][t] > 1
                                   /\ row.Power = IF row.Status = 1
                                                    THEN params.R[<<i, s>>]
                                                    ELSE 0
                    ELSE rows = {}
        /\ \A n \in DOMAIN result.Schedule :
              /\ result.Schedule[n].SystemID \in 1 .. params.S
              /\ result.Schedule[n].MachineID \in 1 .. params.I
              /\ result.Schedule[n].TimeSlot \in 1 .. params.T

\* a result on a two-system layout, where some pairs have no rated power,
\* whose Schedule has rows of both Status values
C20_Witness ==
    /\ HasResult
    /\ \E k \in VarPairs(params) : k \notin DOMAIN params.R
    /\ \E n \in DOMAIN result.Schedule :
          result.Schedule[n].Status = 1 /\ result.Schedule[n].Power > 0
    /\ \E n \in DOMAIN result.Schedule :
          result.Schedule[n].Status = 0 /\ result.Schedule[n].Power = 0

\* a strategy has returned on the parameters of the worked scenario
ScenarioReturned == pc = "returned" /\ params = ScenarioParams

\* C17: on the worked scenario a solve whose objective is EC alone (the
\* weighted sum with w_EC = 1, w_PL = 0) returns machine 1 on in exactly the
\* slots 1 and 2, machine 2 on in exactly slot 1, EC = 0.90, the load
\* profile 5, 2, 0, 0 and PL = 5.
C17_ScenarioCheapestSchedule ==
    (ScenarioReturned /\ approach.name = "Weighted_Sum" /\ approach.w_PL = 0) =>
        /\ result.kind = "Result"
        /\ OnSlots(1, 1) = {1, 2}
        /\ OnSlots(2, 1) = {1}
        /\ result.EC = 9
        /\ result.LoadProfile = <<5, 2, 0, 0>>
        /\ result.PL = 5

\* C18: on the worked scenario get_PL_ideal returns 3.
C18_ScenarioPLIdeal ==
    ScenarioReturned => reference.PL_ideal = Some(3)

\* solve_preemptive_PL_first has returned on the worked scenario with PL at
\* the ideal: the two machines are never on in the same slot
C18_Witness ==
    /\ ScenarioReturned
    /\ HasResult
    /\ approach.name = "PR_PL_First"
    /\ result.PL = reference.PL_ideal.val
    /\ OnSlots(1, 1) \cap OnSlots(2, 1) = {}

\* a strategy has returned after a solve that ended Optimal: solved.a holds
\* the value of every variable of that model
SolvedOptimal == pc = "returned" /\ solved.status = "Optimal"

\* C21: the models have x, y and u variables only for the (machine, system)
\* pairs that have a rated power: the assignment of a solved model has no
\* value for a pair outside R.
C21_OnlyRatedPairsHaveVariables ==
    SolvedOptimal =>
        /\ DOMAIN solved.a.x = DOMAIN params.R
        /\ DOMAIN solved.a.y = DOMAIN params.R
        /\ DOMAIN solved.a.u = DOMAIN params.R

\* C22: in the assignment of every solved model, for every pair and slot t,
\* u = 1 at t only if the machine was on in some earlier slot and is off at
\* t; u never decreases along t; and once u = 1 at t the machine is off at t
\* and in every later slot.
C22_CompletedFlag ==
    SolvedOptimal =>
        \A k \in DOMAIN solved.a.u, t \in 1 .. params.T :
            LET x == solved.a.x[k]
                u == solved.a.u[k]
            IN  /\ u[t] = 1 => (x[t] = 0 /\ \E t0 \in 1 .. t - 1 : x[t0] = 1)
                /\ t >= 2 => u[t - 1] <= u[t]
                /\ u[t] = 1 => \A t1 \in t .. params.T : x[t1] = 0

\* C23: solve_compromise_programming uses as EC_ideal (as PL_ideal) exactly
\* the optimum get_EC_ideal (get_PL_ideal) returns whenever that solve is
\* Optimal, an optimum of 0 included, and 0.1 only when it is not Optimal.
\* locals holds the two values in tenths, reference.PL_ideal is in kW.
C23_CompromiseUsesTrueIdeals ==
    (pc = "returned" /\ approach.name = "Compromise_Programming") =>
        /\ locals.EC_ideal = IF reference.EC_ideal.none
                               THEN 1 ELSE reference.EC_ideal.val
        /\ locals.PL_ideal = IF reference.PL_ideal.none
                               THEN 1 ELSE 10 * reference.PL_ideal.val

\* C25: on every feasible parameter set solve_preemptive_PL_first returns a
\* result; its PL is at most 1.001 times the PL ideal, and its EC is the
\* least EC among the points of the base region whose PL is at most 1.001
\* times the PL ideal.
C25_PLFirstLexicographic ==
    (pc = "returned" /\ approach.name = "PR_PL_First"
       /\ ~reference.PL_ideal.none) =>
        /\ result.kind = "Result"
        /\ 1000 * result.PL <= 1001 * reference.PL_ideal.val
        /\ result.EC = reference.least_EC.val

\* a result of solve_preemptive_PL_first that pays for its peak: its EC is
\* above the EC ideal
C25_Witness ==
    /\ HasResult
    /\ approach.name = "PR_PL_First"
    /\ result.PL = reference.PL_ideal.val
    /\ result.EC > reference.EC_ideal.val

\* the ideals that get_EC_ideal and get_PL_ideal returned, in the units of
\* the deviation rows (tenths)
TrueIdeals ==
    [EC |-> reference.EC_ideal.val, PL |-> 10 * reference.PL_ideal.val]

\* C24: on every feasible parameter set the assignment that
\* solve_compromise_programming returns minimises, over the base region,
\*   max(0, w_EC * (EC - EC_ideal) / max(EC_ideal, 0.001),
\*          w_PL * (PL - PL_ideal) / max(PL_ideal, 0.001))
\* with EC_ideal and PL_ideal the single-objective minima of that region.
C24_CompromiseMinimisesDeviation ==
    (pc = "returned" /\ approach.name = "Compromise_Programming"
       /\ ~reference.EC_ideal.none) =>
        /\ result.kind = "Result"
        /\ MaximumDeviation([a |-> solved.a, EC |-> result.EC], TrueIdeals,
                            <<approach.w_EC, approach.w_PL>>)
              = reference.least_deviation.val

(***************************************************************************)
(* Properties of a run of main.                                            *)
(***************************************************************************)
\* main has called all four strategies and none raised
CalledAllFour ==
    stage \in {"compare", "save", "load", "format", "publish", "daily", "done"}

\* the parameters are feasible: the base region has a point
Feasible == SolveStatus(BuildBaseModel(params)) = "Optimal"

\* C27 as amended: in a run of main the Solver is invoked at most 12 times,
\* 2 + 2 + 5 + 3: no strategy invokes it more than 5 times, the preemptive
\* strategies at most twice each, solve_weighted_sum at most 4 times beyond
\* its own solve and solve_compromise_programming at most twice beyond its
\* own solve.
C27_AtMostTwelveSolves ==
    /\ total_solves <= 12
    /\ pc = "returned" =>
          /\ solves <= 5
          /\ approach.name \in {"PR_EC_First", "PR_PL_First"} => solves <= 2
          /\ approach.name = "Weighted_Sum" => solves <= 4 + 1
          /\ approach.name = "Compromise_Programming" => solves <= 2 + 1

\* a run on feasible parameters that called all four strategies and made
\* 12 solves
C27_Witness == CalledAllFour /\ Feasible /\ total_solves = 12

\* C27 as stated: a run of main that calls all four strategies on feasible
\* parameters invokes the Solver at most 10 times.
C27_AtMostTenSolves == (CalledAllFour /\ Feasible) => total_solves <= 10

\* the approaches whose strategy returned a result
Succeeded == {k \in DOMAIN all_results : all_results[k].kind = "Result"}

\* the steps of main after save_results_to_sheets
AfterSave == stage \in {"load", "format", "publish", "daily", "done"}

\* a comparison table with the EC and PL of every approach that succeeded
\* and no row for any other
ReportsSucceeded(table) ==
    /\ ~table.none
    /\ {<<table.val[n].Approach, table.val[n].EC, table.val[n].PL>> :
          n \in 1 .. Len(table.val)}
         = {<<k, all_results[k].EC, all_results[k].PL>> : k \in Succeeded}

\* C28: when some but not all strategies returned None, compare_approaches
\* and save_results_to_sheets still report the EC and PL of every strategy
\* that succeeded, with no row for a strategy that failed.
C28_PartialResultsReported ==
    (AfterSave /\ Succeeded # {} /\ Succeeded # DOMAIN all_results) =>
        /\ ReportsSucceeded(comparison_df)
        /\ ReportsSucceeded(sheet.OptimizationResults)

\* format_schedule has returned
Formatted == stage \in {"publish", "daily", "done"}

\* the Status of machine i of system s in slot t of a schedule DataFrame; 0
\* where it has no such row
StatusAt(df, s, i, t) ==
    IF \E n \in 1 .. Len(df) :
          /\ df[n].SystemID = s /\ df[n].MachineID = i /\ df[n].TimeSlot = t
          /\ df[n].Status = 1
      THEN 1
      ELSE 0

\* the maximal contiguous blocks of Status = 1 of a schedule DataFrame, as
\* <<SystemID, MachineID, first slot, last slot>>
Blocks(df) ==
    LET slots == {df[n].TimeSlot : n \in 1 .. Len(df)}
        pairs == {<<df[n].SystemID, df[n].MachineID>> : n \in 1 .. Len(df)}
    IN  {b \in pairs \X slots \X slots :
           /\ b[2] <= b[3]
           /\ \A t \in b[2] .. b[3] : StatusAt(df, b[1][1], b[1][2], t) = 1
           /\ StatusAt(df, b[1][1], b[1][2], b[2] - 1) = 0
           /\ StatusAt(df, b[1][1], b[1][2], b[3] + 1) = 0}

\* C29: format_schedule emits exactly one operation period for each maximal
\* contiguous block of Status = 1 of each machine, with the block's first
\* slot as StartSlot, its last slot as EndSlot and its length as
\* DurationSlots; a block still on in the final slot is one of them.
C29_OnePeriodPerBlock ==
    Formatted =>
        /\ Len(periods_df.val) = Cardinality(Blocks(schedule_df.val))
        /\ {<<periods_df.val[n].SystemID, periods_df.val[n].MachineID,
              periods_df.val[n].StartSlot, periods_df.val[n].EndSlot,
              periods_df.val[n].DurationSlots>> :
               n \in 1 .. Len(periods_df.val)}
             = {<<b[1][1], b[1][2], b[2], b[3], b[3] - b[2] + 1>> :
                  b \in Blocks(schedule_df.val)}

\* C30: in a run of main the schedule the formatter reads, formats and
\* publishes is the one save_results_to_sheets wrote to OptimizedSchedule in
\* that run; when a strategy failed and nothing was written, the formatter
\* does not format or publish the schedule an earlier run left there.
C30_FormatsThisRunsSchedule ==
    /\ ~schedule_df.none =>
          /\ AllSolved(all_results)
          /\ schedule_df.val = all_results["WS"].Schedule
    /\ ~periods_df.none =>
          /\ AllSolved(all_results)
          /\ periods_df.val = FormatScheduleOf(params, all_results["WS"].Schedule)
    /\ stage = "done" =>
          /\ AllSolved(all_results)
          /\ sheet.MachineOperationSchedule = periods_df

(***************************************************************************)
(* Independence of the solves.                                             *)
(***************************************************************************)
\* what extract_results makes of the points a last solve may return
Extracted(p, optima) ==
    IF optima = {} THEN {NoResult} ELSE {ExtractResults(p, pt.a) : pt \in optima}

\* what the strategy name can return with the weights w when it is the only
\* call made on a freshly built base model
ReturnsOn(model, p, name, w) ==
    CASE name = "PR_EC_First" ->
           IF SolveStatus(model) # "Optimal"
             THEN {NoResult}
             ELSE LET optimal_EC == MinOf({pt.EC : pt \in model})
                      model2 == {pt \in model : 1000 * pt.EC <= 1001 * optimal_EC}
                  IN  Extracted(p, IF model2 = {} THEN {} ELSE MinimizePL(model2))
      [] name = "PR_PL_First" ->
           IF SolveStatus(model) # "Optimal"
             THEN {NoResult}
             ELSE LET optimal_PL == MinOf({pt.a.PL : pt \in model})
                      model2 == {pt \in model :
                                   1000 * pt.a.PL <= 1001 * optimal_PL}
                  IN  Extracted(p, IF model2 = {} THEN {} ELSE MinimizeEC(model2))
      [] name = "Weighted_Sum" ->
           UNION {IF NormalizationRaises(np)
                    THEN {Raised}
                    ELSE Extracted(p, MinimizeWeighted(model, np, w)) :
                  np \in GetNadirPoints(model)}
      [] name = "Compromise_Programming" ->
           UNION {IF CompromiseRaises(ideal)
                    THEN {Raised}
                    ELSE Extracted(p, MinimizeDeviation(model, ideal, w)) :
                  ideal \in {CompromiseIdeals(model)}}

\* the same on the parameters p
ReturnsAlone(p, name, w) ==
    UNION {ReturnsOn(model, p, name, w) : model \in {BuildBaseModel(p)}}

\* what has returned is a result the strategy returns when it is the only
\* call made on the parameters
ReturnedAsAlone ==
    pc = "returned" =>
        result \in ReturnsAlone(params, approach.name,
                                <<approach.w_EC, approach.w_PL>>)

\* C26: the solves are independent.  Whatever was called before it, in any
\* order and any number of times, what a strategy returns is a result the
\* strategy returns when it is the only call made on the same parameters: no
\* constraint an earlier solve added (Maintain_Optimal_EC,
\* Maintain_Optimal_PL, the deviation constraints) is in its model.  And no
\* step changes the parameters.
C26_SolvesIndependent == []ReturnedAsAlone /\ [][params' = params]_vars

\* every strategy has been called before, and solve_preemptive_EC_first,
\* called again, returns a cheaper result with a higher peak than the one
\* solve_preemptive_PL_first returned earlier: Maintain_Optimal_PL would
\* have excluded it
C26_Witness ==
    /\ HasResult
    /\ approach.name = "PR_EC_First"
    /\ \A k \in DOMAIN all_results : all_results[k].kind = "Result"
    /\ result.PL > all_results["PR_PL_first"].PL
    /\ result.EC < all_results["PR_PL_first"].EC

====
